---- MODULE Spec2Model ----
(***************************************************************************)
(* InveSim game page (app/game/play/page.tsx): the GamePlay component and  *)
(* the part of the game store (@/lib/store) it drives.  The page imports   *)
(* the store; the store's actions are modelled from their contracts in the *)
(* design specification and from the way the component calls them.         *)
(*                                                                         *)
(* Money is counted in whole units.  Time is gameTime in milliseconds.     *)
(* Effects (useEffect) run after the render that changed their             *)
(* dependencies, as steps of their own; the frame loop and setTimeout      *)
(* callbacks call the store directly and can run before them.             *)
(***************************************************************************)
EXTENDS Integers, Sequences, FiniteSets, TLC

(* ------------------------------ bounds -------------------------------- *)
\* number of events the Event Generator raises in one run
MaxEvents == 2
\* number of deferred payments (setTimeout callbacks) pending at once
MaxTimers == 2
\* largest amount typed into an amount field
MaxAmount == 3
\* cash in hand when the game starts, in units
InitialCash == 2
\* largest quantity typed into a quantity field of a priced instrument
MaxQuantity == 2

(* ----------------------------- constants ------------------------------ *)
\* page.tsx:143  10 * 60 * 1000 ms of play time for the whole game
GameDuration == 600000
\* page.tsx:144  10 simulated years
TotalYears == 10
\* page.tsx:21  base price of gold per gram
baseGoldPrice == 5000
\* real intervals between two frames of the loop: half a year of game
\* time, and a long frame (background tab) of two and a half years
Deltas == {30000, 150000}
\* the long frames alone
LongDeltas == {150000}
\* a frame of five years
CoarseDeltas == {300000}
\* the fixed-rate classes the player trades in a run (page.tsx:14-19)
Assets == {"savings", "gold"}
\* page.tsx:764-801  the classes traded through an amount field; gold is
\* traded in grams (page.tsx:725-760)
AmountAssets == Assets \ {"gold"}
\* page.tsx:14-19  baseInvestmentOptions: baseReturnRate in percent
baseReturnRate == [a \in Assets |-> IF a = "savings" THEN 4 ELSE 8]
\* one priced instrument of each kind (stocks, cryptos, realEstates)
Stocks == {"XYZ"}
Cryptos == {"BTC"}
RealEstates == {"FLAT"}
Symbols == Stocks \cup Cryptos \cup RealEstates
\* every key of the investments map: a symbol is used as an Asset
\* (page.tsx:298, 344, 390)
AllAssets == Assets \cup Symbols
\* costs of generated events, in units
EventCosts == {1, 3}
EventTypes == {"income", "expense"}

\* the ledger is counted in hundreds of rupees
MoneyUnit == 100
\* the design specification's scenario, in hundreds: cash 100,000 at the
\* start, amounts of the size of 50,000, expenses of 20,000
ScenarioCash == 1000
ScenarioAmounts == {0, 500, 2000}
ScenarioCosts == {200}
\* grams typed into the gold quantity field
GoldQuantities == {0, 10}
\* prices of the priced instruments after initializeGame(), in hundreds
InitialPrices == [s \in Symbols |-> IF s \in Stocks THEN 250 ELSE 500]

\* Math.random() in tenths: 0, 0.5 and the supremum 1
RandomDraws == {0, 5, 10}
\* the draw that leaves a rate where it is
MidDraw == {5}
\* annual return rates are kept in units of 10^-8 percent, so that four
\* perturbations in a row are exact
RateScale == 100000000

NoEvent == [id |-> 0, type |-> "none", cost |-> 0]
NoArg == [asset |-> "none", amount |-> 0]
\* useUser() of a visitor who is not signed in
NoUser == "none"
\* the users who can be signed in
Users == {"u1"}
\* the competitor's growth per year: the draws of the Competitor Model
AiGrowths == {0, 1}
\* one growth alone
SteadyGrowth == {1}
\* a record of an earlier game in the user's stored results
OldRecord ==
    [userId |-> "u1", date |-> "earlier", playerScore |-> 0, aiScore |-> 1,
     result |-> "loss", difficulty |-> "easy"]
\* page.tsx:91  new Date().toISOString() when this game is saved
Now == "now"
\* page.tsx:61  the store's difficulty, fixed when the game is initialized
difficulty == "easy"

VARIABLES
    gameTime,               \* store: elapsed game time (ms)
    paused,                 \* store: paused flag (setPaused)
    isGameOver,             \* store: game-over flag
    cash,                   \* store: cash
    investments,            \* store: principal per asset
    investmentProfits,      \* store: accrued profit per asset
    netWorth,               \* store: net worth as last recomputed
    aiNetWorth,             \* store: the competitor's net worth
    quantities,             \* store: stockQuantities, cryptoQuantities, realEstateQuantities
    prices,                 \* store: currentPrice of stocks, cryptos, realEstates
    currentEvent,           \* store: outstanding event or NoEvent
    showEventModal,         \* store: event modal flag
    currentYear,            \* component state (useState, line 77)
    investmentOptions,      \* component state (line 75): displayed rate per asset
    previousRates,          \* component state (line 76)
    showInvestmentSelector, \* component state (line 82)
    showGameOverModal,      \* component state (line 83)
    timers,                 \* pending setTimeout callbacks: captured events
    user,                   \* useUser(): the signed-in user or NoUser (line 64)
    results,                \* localStorage: the records stored under the user's key
    eventCount,             \* history: events raised so far (event ids)
    rateUpdates,            \* history: calls of updateInvestmentRates
    saves,                  \* history: calls of saveGameResults
    paid,                   \* history: payExpenseWithCash calls per event id
    lastOp,                 \* history: the handler that ran last
    lastArg                 \* history: asset and amount (or quantity) it was called
                            \* with; for a frame, the competitor's growth drawn

vars == <<gameTime, paused, isGameOver, cash, investments, investmentProfits,
          netWorth, aiNetWorth, quantities, prices, currentEvent, showEventModal,
          currentYear, investmentOptions, previousRates, showInvestmentSelector,
          showGameOverModal, timers, user, results, eventCount, rateUpdates,
          saves, paid,
          lastOp, lastArg>>

storeLedger == <<cash, investments, investmentProfits>>
\* what nothing but a tick of the store changes
storeClock == <<gameTime, isGameOver, aiNetWorth>>
\* the signed-in user and what is stored for them
stored == <<user, results>>
storeEvent == <<currentEvent, showEventModal>>
market == <<quantities, prices>>
rates == <<investmentOptions, previousRates>>
history == <<eventCount, rateUpdates, saves, stored, paid>>

(* ------------------------ derived values (render) --------------------- *)
\* the year without the cap of progress at 1
yearUncapped(t) == (t * TotalYears) \div GameDuration

\* page.tsx:143-144  progress = min(1, gameTime / 600000); year = floor(progress * 10)
year(t) == IF t >= GameDuration THEN TotalYears
           ELSE (t * TotalYears) \div GameDuration

\* page.tsx:145  currentMonth = floor((progress * 10 * 12) % 12)
currentMonth(t) == IF t >= GameDuration THEN 0
                   ELSE ((t * TotalYears * 12) \div GameDuration) % 12

\* page.tsx:248-252
getTotalValue(a) == investments[a] + investmentProfits[a]

\* page.tsx:261-264
hasAnyInvestments == \E a \in AllAssets : investments[a] > 0 \/ investmentProfits[a] > 0

\* page.tsx:183-184  currentGoldRate = baseGoldPrice * (1 + goldReturnRate / 100) ^ year,
\* with the displayed gold rate in hundredths of a percent and each
\* year's growth rounded down to a whole hundred
RECURSIVE goldGrowth(_, _)
goldGrowth(price, y) ==
    IF y = 0 THEN price
    ELSE goldGrowth((price * (10000 + investmentOptions["gold"] \div (RateScale \div 100)))
                        \div 10000, y - 1)

currentGoldRate == goldGrowth(baseGoldPrice \div MoneyUnit, year(gameTime))

\* page.tsx:1357  the event modal is rendered
ModalVisible == showEventModal /\ currentEvent # NoEvent

(* --------------------------- effect scheduling ------------------------ *)
\* an effect whose dependencies changed has not run yet
PauseEffectPending == paused # showEventModal
YearEffectPending == year(gameTime) > currentYear
GameOverEffectPending == isGameOver /\ ~showGameOverModal

\* React runs the effects of the last render before it handles a click
EffectsFlushed == ~PauseEffectPending /\ ~YearEffectPending /\ ~GameOverEffectPending

\* a button of the page can be clicked: effects have run and the game-over
\* overlay (page.tsx:1707) does not cover the page
CanClick == EffectsFlushed /\ ~showGameOverModal

(* ------------------- store actions (@/lib/store) ---------------------- *)
(* The store is imported at page.tsx:5 and destructured at page.tsx:24-62; *)
(* its bodies follow the contracts of the design specification, 4.1-4.5.   *)
(* The store's actions apply a change; the page's handlers validate it.    *)

\* events the generator can raise next
NextEvents(costs) == {[id |-> eventCount + 1, type |-> t, cost |-> c] :
                         t \in EventTypes, c \in costs}

\* the total value of all holdings, for given principal and profit maps
RECURSIVE SumOver(_, _, _)
SumOver(S, inv, prof) ==
    IF S = {} THEN 0
    ELSE LET a == CHOOSE x \in S : TRUE
         IN inv[a] + prof[a] + SumOver(S \ {a}, inv, prof)

\* store.updateNetWorth: net worth = cash + total value of all holdings,
\* read from the store after the action before it
updateNetWorth == netWorth' = cash' + SumOver(AllAssets, investments', investmentProfits')

\* store.handleEvent: an income event is credited at once; the event
\* becomes the outstanding event and its modal is requested
handleEvent(event) ==
    /\ cash' = IF event.type = "income" THEN cash + event.cost ELSE cash
    /\ currentEvent' = event
    /\ showEventModal' = TRUE
    /\ eventCount' = eventCount + 1

\* the store's yearly accrual for the fixed-rate classes: for each of the
\* k year boundaries crossed, profit += principal * rate / 100 at the
\* store's rate of the class
accrue(k) ==
    investmentProfits' =
        [a \in AllAssets |->
            IF a \in Assets
            THEN investmentProfits[a] + k * ((investments[a] * baseReturnRate[a]) \div 100)
            ELSE investmentProfits[a]]

\* a tick that does not look at the paused flag
advanceTimeIgnoresPause(dt, raise, grow) ==
    IF isGameOver
    THEN UNCHANGED <<gameTime, isGameOver, cash, investmentProfits, netWorth,
                     aiNetWorth, currentEvent, showEventModal, eventCount>>
    ELSE /\ gameTime' = gameTime + dt
         /\ isGameOver' = (year(gameTime + dt) >= TotalYears)
         /\ accrue(year(gameTime + dt) - year(gameTime))
         /\ aiNetWorth' = aiNetWorth + (year(gameTime + dt) - year(gameTime)) * grow
         /\ IF raise # NoEvent /\ currentEvent = NoEvent
                /\ year(gameTime + dt) < TotalYears
            THEN handleEvent(raise)
            ELSE UNCHANGED <<cash, currentEvent, showEventModal, eventCount>>
         /\ netWorth' = cash' + SumOver(AllAssets, investments, investmentProfits')

\* a tick whose competitor grows faster while the player is ahead
advanceTimeChasingPlayer(dt, raise, grow) ==
    IF isGameOver \/ paused
    THEN UNCHANGED <<gameTime, isGameOver, cash, investmentProfits, netWorth,
                     aiNetWorth, currentEvent, showEventModal, eventCount>>
    ELSE /\ gameTime' = gameTime + dt
         /\ isGameOver' = (year(gameTime + dt) >= TotalYears)
         /\ accrue(year(gameTime + dt) - year(gameTime))
         /\ aiNetWorth' = aiNetWorth + (year(gameTime + dt) - year(gameTime))
                                          * (grow + (IF netWorth > aiNetWorth THEN 1 ELSE 0))
         /\ IF raise # NoEvent /\ currentEvent = NoEvent
                /\ year(gameTime + dt) < TotalYears
            THEN handleEvent(raise)
            ELSE UNCHANGED <<cash, currentEvent, showEventModal, eventCount>>
         /\ netWorth' = cash' + SumOver(AllAssets, investments, investmentProfits')

\* store.advanceTime: no-op when the game is over or paused; otherwise
\* elapsed time grows by the real interval dt, the year boundaries crossed
\* accrue the annual return, the terminal year sets isGameOver, the Event
\* Generator may raise `raise` when no event is outstanding, net worth is
\* recomputed, and the competitor's net worth grows by `grow` for each
\* year boundary crossed
advanceTime(dt, raise, grow) ==
    IF isGameOver \/ paused
    THEN UNCHANGED <<gameTime, isGameOver, cash, investmentProfits, netWorth,
                     aiNetWorth, currentEvent, showEventModal, eventCount>>
    ELSE /\ gameTime' = gameTime + dt
         /\ isGameOver' = (year(gameTime + dt) >= TotalYears)
         /\ accrue(year(gameTime + dt) - year(gameTime))
         /\ aiNetWorth' = aiNetWorth + (year(gameTime + dt) - year(gameTime)) * grow
         /\ IF raise # NoEvent /\ currentEvent = NoEvent
                /\ year(gameTime + dt) < TotalYears
            THEN handleEvent(raise)
            ELSE UNCHANGED <<cash, currentEvent, showEventModal, eventCount>>
         /\ netWorth' = cash' + SumOver(AllAssets, investments, investmentProfits')

\* store.invest: debits cash, credits principal
invest(asset, amount) ==
    /\ cash' = cash - amount
    /\ investments' = [investments EXCEPT ![asset] = @ + amount]
    /\ UNCHANGED investmentProfits

\* a withdrawal that draws the profit down before the principal
withdrawProfitFirst(asset, amount) ==
    LET fromProfit == IF amount <= investmentProfits[asset] THEN amount
                      ELSE investmentProfits[asset]
    IN /\ cash' = cash + amount
       /\ investmentProfits' = [investmentProfits EXCEPT ![asset] = @ - fromProfit]
       /\ investments' = [investments EXCEPT ![asset] = @ - (amount - fromProfit)]

\* store.withdraw: credits cash, draws profit and principal down pro rata
withdraw(asset, amount) ==
    LET total == getTotalValue(asset)
        fromProfit == IF total = 0 THEN 0
                      ELSE (amount * investmentProfits[asset]) \div total
    IN /\ cash' = cash + amount
       /\ investmentProfits' = [investmentProfits EXCEPT ![asset] = @ - fromProfit]
       /\ investments' = [investments EXCEPT ![asset] = @ - (amount - fromProfit)]

\* store.buyStock / buyCrypto / buyRealEstate: pays quantity * price from
\* cash into the symbol's principal and records the quantity
buy(symbol, quantity) ==
    /\ cash' = cash - prices[symbol] * quantity
    /\ investments' = [investments EXCEPT ![symbol] = @ + prices[symbol] * quantity]
    /\ quantities' = [quantities EXCEPT ![symbol] = @ + quantity]
    /\ UNCHANGED investmentProfits

\* store.sellStock / sellCrypto / sellRealEstate: the sale value leaves the
\* symbol's holding as a withdrawal does and the quantity is reduced
sell(symbol, quantity) ==
    /\ withdraw(symbol, prices[symbol] * quantity)
    /\ quantities' = [quantities EXCEPT ![symbol] = @ - quantity]

\* store.payExpenseWithCash: deducts the cost unconditionally, clears the
\* outstanding event and closes the modal
payExpenseWithCash(event) ==
    /\ cash' = cash - event.cost
    /\ currentEvent' = NoEvent
    /\ showEventModal' = FALSE
    /\ paid' = [paid EXCEPT ![event.id] = @ + 1]

(* --------------------------- the frame loop --------------------------- *)
\* a frame loop that does not reschedule itself while the clock is paused
gameLoopStopsWhilePaused(frames, costs, growths) ==
    /\ ~paused
    /\ \E dt \in frames :
         \E raise \in {NoEvent} \cup (IF eventCount < MaxEvents THEN NextEvents(costs) ELSE {}) :
            \E grow \in growths :
               /\ advanceTime(dt, raise, grow)
               /\ lastArg' = [asset |-> "competitor", amount |-> grow]
    /\ lastOp' = "tick"
    /\ UNCHANGED <<paused, investments, market, currentYear, rates,
                   showInvestmentSelector, showGameOverModal, timers,
                   rateUpdates, saves, stored, paid>>

\* page.tsx:128-132  gameLoop: advanceTime() on every animation frame; the
\* Event Generator draws the cost of an event from `costs` and the
\* Competitor Model its growth from `growths`
gameLoop(frames, costs, growths) ==
    /\ \E dt \in frames :
         \E raise \in {NoEvent} \cup (IF eventCount < MaxEvents THEN NextEvents(costs) ELSE {}) :
            \E grow \in growths :
               /\ advanceTime(dt, raise, grow)
               /\ lastArg' = [asset |-> "competitor", amount |-> grow]
    /\ lastOp' = "tick"
    /\ UNCHANGED <<paused, investments, market, currentYear, rates,
                   showInvestmentSelector, showGameOverModal, timers,
                   rateUpdates, saves, stored, paid>>

(* ------------------------------ effects ------------------------------- *)
\* page.tsx:196  change = (Math.random() - 0.5) * 0.2, in percent, for a
\* draw rnd given in tenths
changePct(rnd) == (rnd - 5) * 2

\* the perturbation with the change doubled
perturbWide(rate, rnd) ==
    LET r == (rate \div 100) * (100 + 2 * changePct(rnd))
    IN IF r > 0 THEN r ELSE 0

\* page.tsx:199  Math.max(0, rate * (1 + change))
perturb(rate, rnd) ==
    LET r == (rate \div 100) * (100 + changePct(rnd))
    IN IF r > 0 THEN r ELSE 0

\* page.tsx:186-203  updateInvestmentRates: remembers the rates shown and
\* perturbs each of them by its own draw; counted per call
updateInvestmentRates(draws) ==
    /\ previousRates' = investmentOptions
    /\ \E rnd \in [Assets -> draws] :
          investmentOptions' = [a \in Assets |-> perturb(investmentOptions[a], rnd[a])]
    /\ rateUpdates' = rateUpdates + 1

\* the year effect with its test weakened to year >= currentYear
YearEffectEveryRun(draws) ==
    /\ IF year(gameTime) >= currentYear
       THEN /\ updateInvestmentRates(draws)
            /\ currentYear' = year(gameTime)
       ELSE UNCHANGED <<rateUpdates, currentYear, rates>>
    /\ lastOp' = "yearEffect"
    /\ lastArg' = NoArg
    /\ UNCHANGED <<storeClock, paused, storeLedger, netWorth, market, storeEvent,
                   showInvestmentSelector, showGameOverModal, timers,
                   eventCount, saves, stored, paid>>

\* page.tsx:152-157  useEffect: if (year > currentYear) { updateInvestmentRates(); setCurrentYear(year) }
YearEffect(draws) ==
    /\ IF year(gameTime) > currentYear
       THEN /\ updateInvestmentRates(draws)
            /\ currentYear' = year(gameTime)
       ELSE UNCHANGED <<rateUpdates, currentYear, rates>>
    /\ lastOp' = "yearEffect"
    /\ lastArg' = NoArg
    /\ UNCHANGED <<storeClock, paused, storeLedger, netWorth, market, storeEvent,
                   showInvestmentSelector, showGameOverModal, timers,
                   eventCount, saves, stored, paid>>

\* the record with a tie counted as a win
gameResultTieWins ==
    [userId |-> user, date |-> Now, playerScore |-> netWorth, aiScore |-> aiNetWorth,
     result |-> IF netWorth >= aiNetWorth THEN "win" ELSE "loss",
     difficulty |-> difficulty]

\* page.tsx:89-97  playerWon = netWorth > aiNetWorth and the record built
\* from it
gameResult ==
    [userId |-> user, date |-> Now, playerScore |-> netWorth, aiScore |-> aiNetWorth,
     result |-> IF netWorth > aiNetWorth THEN "win" ELSE "loss",
     difficulty |-> difficulty]

\* page.tsx:1721-1725  the verdict of the game-over modal
modalVerdict == IF netWorth > aiNetWorth THEN "win" ELSE "loss"

\* saveGameResults replacing what is stored by the new record
saveGameResultsOverwrite ==
    /\ saves' = saves + 1
    /\ UNCHANGED user
    /\ IF user = NoUser
       THEN UNCHANGED results
       ELSE \E ok \in BOOLEAN :
               results' = IF ok THEN <<gameResult>> ELSE results

\* page.tsx:86-113  saveGameResults, counted per call: nothing for a user
\* who is not signed in; else the record is appended to the stored
\* results, unless localStorage or JSON throws, which is caught
saveGameResults ==
    /\ saves' = saves + 1
    /\ UNCHANGED user
    /\ IF user = NoUser
       THEN UNCHANGED results
       ELSE \E ok \in BOOLEAN :
               results' = IF ok THEN Append(results, gameResult) ELSE results

\* the game-over effect without the test of showGameOverModal
GameOverEffectUnguarded ==
    /\ IF isGameOver
       THEN /\ saveGameResults
            /\ showGameOverModal' = TRUE
       ELSE UNCHANGED <<saves, stored, showGameOverModal>>
    /\ lastOp' = "gameOverEffect"
    /\ lastArg' = NoArg
    /\ UNCHANGED <<storeClock, paused, storeLedger, netWorth, market, storeEvent,
                   currentYear, rates, showInvestmentSelector, timers,
                   eventCount, rateUpdates, paid>>

\* page.tsx:116-121  useEffect: if (isGameOver && !showGameOverModal) { save; show modal }
GameOverEffect ==
    /\ IF isGameOver /\ ~showGameOverModal
       THEN /\ saveGameResults
            /\ showGameOverModal' = TRUE
       ELSE UNCHANGED <<saves, stored, showGameOverModal>>
    /\ lastOp' = "gameOverEffect"
    /\ lastArg' = NoArg
    /\ UNCHANGED <<storeClock, paused, storeLedger, netWorth, market, storeEvent,
                   currentYear, rates, showInvestmentSelector, timers,
                   eventCount, rateUpdates, paid>>

\* store.setPaused: sets the paused flag and nothing else
setPaused(value) == paused' = value

\* page.tsx:170-181  the same effect as it runs after the first render,
\* with showEventModal false and the clock not paused
PauseEffectOnMount ==
    /\ lastOp = "init"
    /\ setPaused(showEventModal)
    /\ showInvestmentSelector' = IF ~showEventModal THEN FALSE ELSE showInvestmentSelector
    /\ lastOp' = "pauseEffect"
    /\ lastArg' = NoArg
    /\ UNCHANGED <<storeClock, storeLedger, netWorth, market, storeEvent,
                   currentYear, rates, showGameOverModal, timers, history>>

\* page.tsx:170-181  useEffect on showEventModal: setPaused(showEventModal);
\* if (!showEventModal) setShowInvestmentSelector(false)
PauseEffect ==
    /\ PauseEffectPending
    /\ setPaused(showEventModal)
    /\ showInvestmentSelector' = IF ~showEventModal THEN FALSE ELSE showInvestmentSelector
    /\ lastOp' = "pauseEffect"
    /\ lastArg' = NoArg
    /\ UNCHANGED <<storeClock, storeLedger, netWorth, market, storeEvent,
                   currentYear, rates, showGameOverModal, timers, history>>

(* --------------------------- click handlers --------------------------- *)
\* what no handler of the main page touches
mainPageFrame == <<storeClock, paused, storeEvent, currentYear, rates, prices,
                   showInvestmentSelector, showGameOverModal, timers, history>>

\* handleInvest without the test of the cash in hand
handleInvestNoCashTest(asset, amount) ==
    /\ CanClick /\ ~ModalVisible
    /\ lastArg' = [asset |-> asset, amount |-> amount]
    /\ IF amount <= 0
       THEN /\ lastOp' = "investRejected"
            /\ UNCHANGED <<storeLedger, netWorth>>
       ELSE /\ invest(asset, amount)
            /\ updateNetWorth
            /\ lastOp' = "invest"
    /\ UNCHANGED <<mainPageFrame, quantities>>

\* handleInvest refusing to invest all of the cash
handleInvestStrict(asset, amount) ==
    /\ CanClick /\ ~ModalVisible
    /\ lastArg' = [asset |-> asset, amount |-> amount]
    /\ IF amount <= 0 \/ amount >= cash
       THEN /\ lastOp' = "investRejected"
            /\ UNCHANGED <<storeLedger, netWorth>>
       ELSE /\ invest(asset, amount)
            /\ updateNetWorth
            /\ lastOp' = "invest"
    /\ UNCHANGED <<mainPageFrame, quantities>>

\* page.tsx:205-214  handleInvest
handleInvest(asset, amount) ==
    /\ CanClick /\ ~ModalVisible
    /\ lastArg' = [asset |-> asset, amount |-> amount]
    /\ IF amount <= 0 \/ amount > cash
       THEN /\ lastOp' = "investRejected"
            /\ UNCHANGED <<storeLedger, netWorth>>
       ELSE /\ invest(asset, amount)
            /\ updateNetWorth
            /\ lastOp' = "invest"
    /\ UNCHANGED <<mainPageFrame, quantities>>

\* handleWithdraw without the test of the total value
handleWithdrawNoTotalTest(asset, amount) ==
    /\ CanClick /\ ~ModalVisible
    /\ lastArg' = [asset |-> asset, amount |-> amount]
    /\ IF amount <= 0
       THEN /\ lastOp' = "withdrawRejected"
            /\ UNCHANGED <<storeLedger, netWorth>>
       ELSE /\ withdraw(asset, amount)
            /\ updateNetWorth
            /\ lastOp' = "withdraw"
    /\ UNCHANGED <<mainPageFrame, quantities>>

\* page.tsx:216-226  handleWithdraw
handleWithdraw(asset, amount) ==
    /\ CanClick /\ ~ModalVisible
    /\ lastArg' = [asset |-> asset, amount |-> amount]
    /\ IF getTotalValue(asset) < amount \/ amount <= 0
       THEN /\ lastOp' = "withdrawRejected"
            /\ UNCHANGED <<storeLedger, netWorth>>
       ELSE /\ withdraw(asset, amount)
            /\ updateNetWorth
            /\ lastOp' = "withdraw"
    /\ UNCHANGED <<mainPageFrame, quantities>>

\* page.tsx:228-231  handleGoldInvest: amount = quantity * currentGoldRate
handleGoldInvest(quantity) == handleInvest("gold", quantity * currentGoldRate)

\* page.tsx:233-241  handleGoldWithdraw: its own test, then handleWithdraw
handleGoldWithdraw(quantity) ==
    LET amount == quantity * currentGoldRate
    IN IF getTotalValue("gold") < amount \/ amount <= 0
       THEN /\ CanClick /\ ~ModalVisible
            /\ lastArg' = [asset |-> "gold", amount |-> amount]
            /\ lastOp' = "withdrawRejected"
            /\ UNCHANGED <<storeLedger, netWorth, mainPageFrame, quantities>>
       ELSE handleWithdraw("gold", amount)

\* the purchase without the test of the cash in hand
handleBuyNoCashTest(symbol, quantity) ==
    /\ CanClick /\ ~ModalVisible
    /\ lastArg' = [asset |-> symbol, amount |-> quantity]
    /\ IF quantity <= 0
       THEN /\ lastOp' = "buyRejected"
            /\ UNCHANGED <<storeLedger, quantities>>
       ELSE /\ buy(symbol, quantity)
            /\ lastOp' = "buy"
    /\ UNCHANGED <<mainPageFrame, netWorth>>

\* the purchase that tests only that the player is not in debt
handleBuyOnCredit(symbol, quantity) ==
    /\ CanClick /\ ~ModalVisible
    /\ lastArg' = [asset |-> symbol, amount |-> quantity]
    /\ IF quantity <= 0 \/ cash <= 0
       THEN /\ lastOp' = "buyRejected"
            /\ UNCHANGED <<storeLedger, quantities>>
       ELSE /\ buy(symbol, quantity)
            /\ lastOp' = "buy"
    /\ UNCHANGED <<mainPageFrame, netWorth>>

\* page.tsx:273-289, 319-335, 365-381  the three purchase handlers share
\* one body: reject quantity <= 0, reject totalCost > cash, else buy
handleBuy(symbol, quantity) ==
    /\ CanClick /\ ~ModalVisible
    /\ lastArg' = [asset |-> symbol, amount |-> quantity]
    /\ IF quantity <= 0 \/ prices[symbol] * quantity > cash
       THEN /\ lastOp' = "buyRejected"
            /\ UNCHANGED <<storeLedger, quantities>>
       ELSE /\ buy(symbol, quantity)
            /\ lastOp' = "buy"
    /\ UNCHANGED <<mainPageFrame, netWorth>>

\* page.tsx:273-289
handleStockBuy(stockSymbol, quantity) == stockSymbol \in Stocks /\ handleBuy(stockSymbol, quantity)
\* page.tsx:319-335
handleCryptoBuy(cryptoSymbol, quantity) == cryptoSymbol \in Cryptos /\ handleBuy(cryptoSymbol, quantity)
\* page.tsx:365-381
handleRealEstateBuy(realEstateSymbol, quantity) ==
    realEstateSymbol \in RealEstates /\ handleBuy(realEstateSymbol, quantity)

\* page.tsx:300, 346, 392  Math.floor(totalValue / currentPrice)
currentShares(symbol) == getTotalValue(symbol) \div prices[symbol]

\* page.tsx:314-316, 360-362, 406-408  getOwnedShares / getOwnedCoins / getOwnedProperties
getOwned(symbol) == quantities[symbol]

\* page.tsx:291-312, 337-358, 383-404  the three sale handlers share one
\* body: reject quantity <= 0, reject quantity > currentShares, else sell
handleSell(symbol, quantity) ==
    /\ CanClick /\ ~ModalVisible
    /\ lastArg' = [asset |-> symbol, amount |-> quantity]
    /\ IF quantity <= 0 \/ quantity > currentShares(symbol)
       THEN /\ lastOp' = "sellQtyRejected"
            /\ UNCHANGED <<storeLedger, quantities>>
       ELSE /\ sell(symbol, quantity)
            /\ lastOp' = "sellQty"
    /\ UNCHANGED <<mainPageFrame, netWorth>>

\* page.tsx:291-312
handleStockSell(stockSymbol, quantity) == stockSymbol \in Stocks /\ handleSell(stockSymbol, quantity)
\* page.tsx:337-358
handleCryptoSell(cryptoSymbol, quantity) == cryptoSymbol \in Cryptos /\ handleSell(cryptoSymbol, quantity)
\* page.tsx:383-404
handleRealEstateSell(realEstateSymbol, quantity) ==
    realEstateSymbol \in RealEstates /\ handleSell(realEstateSymbol, quantity)

\* the acknowledgment applying the event again
AcknowledgeIncomeCredits ==
    /\ CanClick /\ ModalVisible /\ currentEvent.type = "income"
    /\ showEventModal' = FALSE
    /\ currentEvent' = NoEvent
    /\ cash' = cash + currentEvent.cost
    /\ lastOp' = "ack"
    /\ lastArg' = NoArg
    /\ UNCHANGED <<storeClock, paused, investments, investmentProfits, netWorth,
                   market, currentYear, rates,
                   showInvestmentSelector, showGameOverModal, timers, history>>

\* page.tsx:1391-1399  income modal: "Continue Playing"
AcknowledgeIncome ==
    /\ CanClick /\ ModalVisible /\ currentEvent.type = "income"
    /\ showEventModal' = FALSE
    /\ currentEvent' = NoEvent
    /\ lastOp' = "ack"
    /\ lastArg' = NoArg
    /\ UNCHANGED <<storeClock, paused, storeLedger, netWorth, market, currentYear,
                   rates, showInvestmentSelector, showGameOverModal, timers, history>>

\* "Pay with Cash" with the validation the other handlers have: a payment
\* the cash does not cover is rejected
PayWithCashIfCovered ==
    /\ CanClick /\ ModalVisible /\ currentEvent.type = "expense"
    /\ IF cash >= currentEvent.cost
       THEN payExpenseWithCash(currentEvent)
       ELSE UNCHANGED <<cash, currentEvent, showEventModal, paid>>
    /\ lastOp' = "payCash"
    /\ lastArg' = NoArg
    /\ UNCHANGED <<storeClock, paused, investments, investmentProfits, netWorth,
                   market, currentYear, rates,
                   showInvestmentSelector, showGameOverModal, timers,
                   eventCount, rateUpdates, saves, stored>>

\* page.tsx:1414-1427  expense modal: "Pay with Cash"
PayWithCash ==
    /\ CanClick /\ ModalVisible /\ currentEvent.type = "expense"
    /\ payExpenseWithCash(currentEvent)
    /\ lastOp' = "payCash"
    /\ lastArg' = NoArg
    /\ UNCHANGED <<storeClock, paused, investments, investmentProfits, netWorth,
                   market, currentYear, rates,
                   showInvestmentSelector, showGameOverModal, timers,
                   eventCount, rateUpdates, saves, stored>>

\* page.tsx:1429-1436  "Choose Investments to Sell"
OpenSelector ==
    /\ CanClick /\ ModalVisible /\ currentEvent.type = "expense"
    /\ hasAnyInvestments /\ ~showInvestmentSelector
    /\ showInvestmentSelector' = TRUE
    /\ lastOp' = "openSelector"
    /\ lastArg' = NoArg
    /\ UNCHANGED <<storeClock, paused, storeLedger, netWorth, market, storeEvent,
                   currentYear, rates, showGameOverModal, timers, history>>

\* page.tsx:1438-1447  the selector's close button
CloseSelector ==
    /\ CanClick /\ ModalVisible /\ currentEvent.type = "expense"
    /\ hasAnyInvestments /\ showInvestmentSelector
    /\ showInvestmentSelector' = FALSE
    /\ lastOp' = "closeSelector"
    /\ lastArg' = NoArg
    /\ UNCHANGED <<storeClock, paused, storeLedger, netWorth, market, storeEvent,
                   currentYear, rates, showGameOverModal, timers, history>>

\* the check made against the cash of before the withdrawal
schedulePaymentStaleCash(amount) ==
    IF cash >= currentEvent.cost
    THEN /\ showInvestmentSelector' = FALSE
         /\ timers' = Append(timers, currentEvent)
    ELSE UNCHANGED <<showInvestmentSelector, timers>>

\* the payment scheduled after every sell
schedulePaymentAlways(amount) ==
    /\ showInvestmentSelector' = FALSE
    /\ timers' = Append(timers, currentEvent)

\* page.tsx:420-430  the expense is covered: hide the selector and pay after 100 ms
\* with the event captured by the closure
schedulePayment(amount) ==
    IF cash + amount >= currentEvent.cost
    THEN /\ showInvestmentSelector' = FALSE
         /\ timers' = Append(timers, currentEvent)
    ELSE UNCHANGED <<showInvestmentSelector, timers>>

\* handleSellInvestment without the test of the total value
handleSellInvestmentNoTotalTest(asset, amount) ==
    /\ CanClick /\ ModalVisible /\ currentEvent.type = "expense"
    /\ hasAnyInvestments /\ showInvestmentSelector
    /\ getTotalValue(asset) > 0
    /\ Len(timers) < MaxTimers
    /\ lastArg' = [asset |-> asset, amount |-> amount]
    /\ IF amount <= 0
       THEN /\ lastOp' = "sellRejected"
            /\ UNCHANGED <<storeLedger, showInvestmentSelector, timers>>
       ELSE /\ withdraw(asset, amount)
            /\ schedulePayment(amount)
            /\ lastOp' = "sell"
    /\ UNCHANGED <<storeClock, paused, storeEvent, netWorth, market, currentYear,
                   rates, showGameOverModal, history>>

\* page.tsx:410-431  handleSellInvestment, from a row of the selector
handleSellInvestment(asset, amount) ==
    /\ CanClick /\ ModalVisible /\ currentEvent.type = "expense"
    /\ hasAnyInvestments /\ showInvestmentSelector
    /\ getTotalValue(asset) > 0
    /\ Len(timers) < MaxTimers
    /\ lastArg' = [asset |-> asset, amount |-> amount]
    /\ IF amount > getTotalValue(asset) \/ amount <= 0
       THEN /\ lastOp' = "sellRejected"
            /\ UNCHANGED <<storeLedger, showInvestmentSelector, timers>>
       ELSE /\ withdraw(asset, amount)
            /\ schedulePayment(amount)
            /\ lastOp' = "sell"
    /\ UNCHANGED <<storeClock, paused, storeEvent, netWorth, market, currentYear,
                   rates, showGameOverModal, history>>

\* page.tsx:425-429  the setTimeout callback: if (currentEvent) payExpenseWithCash(currentEvent)
TimerFire ==
    /\ timers # <<>>
    /\ IF Head(timers) # NoEvent
       THEN payExpenseWithCash(Head(timers))
       ELSE UNCHANGED <<cash, currentEvent, showEventModal, paid>>
    /\ timers' = Tail(timers)
    /\ lastOp' = "timerPay"
    /\ lastArg' = NoArg
    /\ UNCHANGED <<storeClock, paused, investments, investmentProfits, netWorth,
                   market, currentYear, rates,
                   showInvestmentSelector, showGameOverModal,
                   eventCount, rateUpdates, saves, stored>>

(* --------------------------- specification ---------------------------- *)
\* what the first render shows whatever the cash: page.tsx:75-83, 124
InitPage ==
    /\ gameTime = 0
    /\ paused = FALSE
    /\ isGameOver = FALSE
    /\ investments = [a \in AllAssets |-> 0]
    /\ investmentProfits = [a \in AllAssets |-> 0]
    /\ quantities = [s \in Symbols |-> 0]
    /\ prices = InitialPrices
    /\ currentEvent = NoEvent
    /\ showEventModal = FALSE
    /\ currentYear = 0
    /\ investmentOptions = [a \in Assets |-> baseReturnRate[a] * RateScale]
    /\ previousRates = [a \in Assets |-> baseReturnRate[a] * RateScale]
    /\ showInvestmentSelector = FALSE
    /\ showGameOverModal = FALSE
    /\ timers = <<>>
    /\ aiNetWorth = cash
    /\ eventCount = 0
    /\ rateUpdates = 0
    /\ saves = 0
    /\ paid = [i \in 1..(MaxEvents + 1) |-> 0]
    /\ lastOp = "init"
    /\ lastArg = NoArg

\* the state after initializeGame() and the first render, money in units
Init ==
    /\ cash = InitialCash
    /\ netWorth = InitialCash
    /\ user = "u1"
    /\ results = <<>>
    /\ InitPage

Next ==
    \/ gameLoop(LongDeltas, EventCosts, SteadyGrowth)
    \/ YearEffect(MidDraw)
    \/ GameOverEffect
    \/ PauseEffect
    \/ \E a \in Assets : \E amount \in 0..MaxAmount : handleInvest(a, amount)
    \/ AcknowledgeIncome
    \/ PayWithCash
    \/ OpenSelector
    \/ CloseSelector
    \/ \E a \in Assets : \E amount \in 0..MaxAmount : handleSellInvestment(a, amount)
    \/ TimerFire

Spec == Init /\ [][Next]_vars

\* the clock under frames of every length, with a player who only settles
\* events by acknowledging them or paying cash
NextClock ==
    \/ gameLoop(Deltas, EventCosts, SteadyGrowth)
    \/ YearEffect(MidDraw)
    \/ GameOverEffect
    \/ PauseEffect
    \/ AcknowledgeIncome
    \/ PayWithCash

SpecClock == Init /\ [][NextClock]_vars

\* the clock with the pause effect of the first render
NextPause ==
    \/ NextClock
    \/ PauseEffectOnMount

SpecPause == Init /\ [][NextPause]_vars

\* the end of the game: a user signed in or not, earlier results stored or
\* not, and a competitor that grows or stands still in each year
InitResult ==
    /\ cash = InitialCash
    /\ netWorth = InitialCash
    /\ user \in Users \cup {NoUser}
    /\ results \in {<<>>, <<OldRecord>>}
    /\ InitPage

NextResult ==
    \/ gameLoop(LongDeltas, EventCosts, AiGrowths)
    \/ YearEffect(MidDraw)
    \/ GameOverEffect
    \/ PauseEffect
    \/ AcknowledgeIncome
    \/ PayWithCash

SpecResult == InitResult /\ [][NextResult]_vars

\* the whole page against a competitor that grows or stands still in each
\* year
NextCompetitor ==
    \/ gameLoop(CoarseDeltas, EventCosts, AiGrowths)
    \/ YearEffect(MidDraw)
    \/ GameOverEffect
    \/ PauseEffect
    \/ \E a \in AmountAssets : \E amount \in 0..MaxAmount : handleInvest(a, amount)
    \/ \E a \in AmountAssets : \E amount \in 0..MaxAmount : handleWithdraw(a, amount)
    \/ AcknowledgeIncome
    \/ PayWithCash
    \/ OpenSelector
    \/ CloseSelector
    \/ \E a \in Assets : \E amount \in 0..MaxAmount : handleSellInvestment(a, amount)
    \/ TimerFire

SpecCompetitor == Init /\ [][NextCompetitor]_vars

\* the clock under long frames
NextLoop ==
    \/ gameLoop(LongDeltas, EventCosts, SteadyGrowth)
    \/ YearEffect(MidDraw)
    \/ GameOverEffect
    \/ PauseEffect
    \/ AcknowledgeIncome
    \/ PayWithCash

\* page.tsx:131  requestAnimationFrame: the browser does call the frame
\* callback the loop has requested
FairLoop ==
    /\ Init /\ [][NextLoop]_vars
    /\ WF_vars(gameLoop(LongDeltas, EventCosts, SteadyGrowth))

\* setTimeout callbacks and effects whose dependencies changed do run
FairSpec == Spec /\ WF_vars(TimerFire) /\ WF_vars(PauseEffect)

\* the state after initializeGame() with the scenario's cash, money in
\* hundreds
InitLedger ==
    /\ cash = ScenarioCash
    /\ netWorth = ScenarioCash
    /\ user = "u1"
    /\ results = <<>>
    /\ InitPage

\* the portfolio ledger: a player who trades the fixed-rate classes from
\* the main page; no events are raised
NextLedger ==
    \/ gameLoop(CoarseDeltas, {}, SteadyGrowth)
    \/ YearEffect(MidDraw)
    \/ GameOverEffect
    \/ \E a \in AmountAssets : \E amount \in ScenarioAmounts : handleInvest(a, amount)
    \/ \E a \in AmountAssets : \E amount \in ScenarioAmounts : handleWithdraw(a, amount)
    \/ \E q \in GoldQuantities : handleGoldInvest(q)
    \/ \E q \in GoldQuantities : handleGoldWithdraw(q)

SpecLedger == InitLedger /\ [][NextLedger]_vars

\* the priced instruments under settlement: a player who buys and sells
\* them on the main page and sells them from the selector to pay expenses
NextInstruments ==
    \/ gameLoop(CoarseDeltas, ScenarioCosts, SteadyGrowth)
    \/ YearEffect(MidDraw)
    \/ GameOverEffect
    \/ PauseEffect
    \/ \E s \in Symbols : \E q \in 0..MaxQuantity : handleStockBuy(s, q)
    \/ \E s \in Symbols : \E q \in 0..MaxQuantity : handleStockSell(s, q)
    \/ \E s \in Symbols : \E q \in 0..MaxQuantity : handleCryptoBuy(s, q)
    \/ \E s \in Symbols : \E q \in 0..MaxQuantity : handleCryptoSell(s, q)
    \/ \E s \in Symbols : \E q \in 0..MaxQuantity : handleRealEstateBuy(s, q)
    \/ \E s \in Symbols : \E q \in 0..MaxQuantity : handleRealEstateSell(s, q)
    \/ AcknowledgeIncome
    \/ PayWithCash
    \/ OpenSelector
    \/ CloseSelector
    \/ \E s \in Symbols : \E amount \in ScenarioAmounts : handleSellInvestment(s, amount)
    \/ TimerFire

SpecInstruments == InitLedger /\ [][NextInstruments]_vars

\* cash under every way of spending it: a player who invests, buys and
\* pays expenses with cash
NextDebt ==
    \/ gameLoop(CoarseDeltas, ScenarioCosts, SteadyGrowth)
    \/ YearEffect(MidDraw)
    \/ GameOverEffect
    \/ PauseEffect
    \/ \E a \in AmountAssets : \E amount \in ScenarioAmounts : handleInvest(a, amount)
    \/ \E q \in GoldQuantities : handleGoldInvest(q)
    \/ \E s \in Symbols : \E q \in 0..MaxQuantity : handleStockBuy(s, q)
    \/ \E s \in Symbols : \E q \in 0..MaxQuantity : handleCryptoBuy(s, q)
    \/ \E s \in Symbols : \E q \in 0..MaxQuantity : handleRealEstateBuy(s, q)
    \/ AcknowledgeIncome
    \/ PayWithCash

SpecDebt == InitLedger /\ [][NextDebt]_vars

\* the displayed rates under every draw, with a player who invests in the
\* fixed-rate classes; no events are raised
NextRates ==
    \/ gameLoop(LongDeltas, {}, SteadyGrowth)
    \/ YearEffect(RandomDraws)
    \/ GameOverEffect
    \/ \E a \in AmountAssets : \E amount \in ScenarioAmounts : handleInvest(a, amount)

SpecRates == InitLedger /\ [][NextRates]_vars

(* ------------------------------ claims -------------------------------- *)

\* C1: every expense event is consumed exactly once: its cost is deducted
\* from cash at most one time, whatever the interleaving of sell clicks,
\* the deferred payment and a direct "Pay with Cash" click.
C1_ConsumedOnce == \A i \in DOMAIN paid : paid[i] <= 1

\* C2: after a valid sell that leaves cash >= the cost of the outstanding
\* event, the event is eventually resolved by a cash payment (event cleared,
\* modal closed, clock resumed) without a further click.
C2_AutoResolved ==
    (lastOp = "sell" /\ currentEvent # NoEvent /\ cash >= currentEvent.cost)
        ~> (currentEvent = NoEvent /\ ~showEventModal /\ ~paused)

\* the deferred payment has resolved an event that was paid once
C2_Witness ==
    /\ lastOp = "timerPay"
    /\ currentEvent = NoEvent /\ ~showEventModal
    /\ \E i \in DOMAIN paid : paid[i] = 1

\* C3: a valid sell whose resulting cash is below the cost moves exactly
\* the amount from one asset to cash, schedules and makes no payment, and
\* leaves the same event outstanding with its modal shown and its buttons
\* usable.
C3_PartialSell ==
    [][(lastOp' = "sell" /\ cash' # cash /\ cash' < currentEvent.cost) =>
          /\ cash' > cash
          /\ \E a \in Assets :
                /\ getTotalValue(a)' = getTotalValue(a) - (cash' - cash)
                /\ \A b \in Assets \ {a} : getTotalValue(b)' = getTotalValue(b)
          /\ timers' = timers
          /\ paid' = paid
          /\ currentEvent' = currentEvent /\ currentEvent.type = "expense"
          /\ ModalVisible' /\ CanClick'
      ]_vars

\* a sell has left the expense uncovered and nothing is scheduled
C3_Witness ==
    /\ lastOp = "sell"
    /\ ModalVisible /\ cash < currentEvent.cost
    /\ timers = <<>>

\* C4: a "Pay with Cash" click is accepted for every cash value: cash
\* becomes cash - cost (possibly negative) and no event is outstanding.
C4_PayUnconditional ==
    [][lastOp' = "payCash" =>
          /\ cash' = cash - currentEvent.cost
          /\ currentEvent' = NoEvent
          /\ ~showEventModal'
      ]_vars

\* a cash payment has put the player into debt
C4_Witness == lastOp = "payCash" /\ cash < 0 /\ currentEvent = NoEvent

C6_OutstandingUntilPaid ==
    [][currentEvent.type = "expense" =>
          /\ gameTime' = gameTime
          /\ (currentEvent' # currentEvent =>
                /\ currentEvent' = NoEvent
                /\ paid'[currentEvent.id] = paid[currentEvent.id] + 1)
      ]_vars

\* C7: an income event is credited to cash when it is raised; the
\* acknowledge click only closes the modal and clears the event, leaving
\* cash, principal, profit and quantities unchanged and scheduling nothing;
\* the pause effect that follows resumes the clock.
C7_IncomeAcknowledged ==
    [][/\ (currentEvent = NoEvent /\ currentEvent'.type = "income" =>
              cash' = cash + currentEvent'.cost)
       /\ (lastOp' = "ack" =>
              /\ currentEvent.type = "income"
              /\ currentEvent' = NoEvent /\ ~showEventModal'
              /\ UNCHANGED <<cash, investments, investmentProfits, quantities,
                             timers, paid>>)
       /\ (lastOp = "ack" /\ lastOp' = "pauseEffect" => ~paused')
      ]_vars

\* an income event has been credited and acknowledged
C7_Witness ==
    /\ lastOp = "ack"
    /\ currentEvent = NoEvent
    /\ cash > InitialCash

\* C8: no year boundary is skipped: once the year effect has caught up
\* with the derived year, updateInvestmentRates has run once for every
\* boundary crossed, that is year times.
C8_NoBoundarySkipped ==
    currentYear = year(gameTime) => rateUpdates = year(gameTime)

\* C9: no year transition is duplicated: once the boundary into the
\* current year is handled, steps that leave the derived year unchanged
\* (ticks, effect runs, pause and resume) apply no further rate update.
C9_NoDuplicateUpdate ==
    [][(currentYear = year(gameTime) /\ year(gameTime') = year(gameTime)) =>
          /\ rateUpdates' = rateUpdates
          /\ currentYear' = currentYear
      ]_vars

\* a tick inside a year whose boundary is already handled
C9_Witness ==
    /\ lastOp = "tick"
    /\ currentYear = year(gameTime) /\ currentYear >= 1
    /\ gameTime > currentYear * (GameDuration \div TotalYears)
    /\ rateUpdates >= 1

\* C10: isGameOver is set when the year reaches 10 and stays set; the
\* game-over handling (save and modal) runs exactly once; a tick after
\* game over changes nothing.
C10_GameOverOnce ==
    /\ [](/\ isGameOver <=> year(gameTime) >= TotalYears
          /\ saves <= 1
          /\ showGameOverModal => (isGameOver /\ saves = 1))
    /\ [][isGameOver =>
            /\ isGameOver'
            /\ (lastOp' = "tick" =>
                  UNCHANGED <<gameTime, paused, cash, investments, investmentProfits,
                              currentEvent, showEventModal, currentYear,
                              showInvestmentSelector, showGameOverModal, timers,
                              eventCount, rateUpdates, saves, stored, paid>>)
       ]_vars

\* the loop has ticked after the game-over handling ran
C10_Witness ==
    /\ isGameOver /\ showGameOverModal /\ saves = 1
    /\ lastOp = "tick"

C12_InvalidInvestRejected ==
    [][(/\ lastOp' \in {"invest", "investRejected"}
        /\ (lastArg'.amount <= 0 \/ lastArg'.amount > cash))
       => (/\ lastOp' = "investRejected"
           /\ UNCHANGED <<cash, investments, investmentProfits, netWorth>>)]_vars

\* an investment of more than the cash in hand was asked for and rejected
C12_Witness == lastOp = "investRejected" /\ lastArg.amount > cash /\ cash > 0

\* C13: a valid investment, 0 < amt <= cash, is accepted: principal[asset]
\* grows by exactly amt, cash falls by exactly amt and stays >= 0, and the
\* principal and profit of every other asset are unchanged.
C13_ValidInvest ==
    [][(/\ lastOp' \in {"invest", "investRejected"}
        /\ 0 < lastArg'.amount /\ lastArg'.amount <= cash)
       => (/\ lastOp' = "invest"
           /\ investments'[lastArg'.asset] = investments[lastArg'.asset] + lastArg'.amount
           /\ cash' = cash - lastArg'.amount
           /\ cash' >= 0
           /\ \A b \in AllAssets \ {lastArg'.asset} :
                 /\ investments'[b] = investments[b]
                 /\ investmentProfits'[b] = investmentProfits[b])]_vars

\* all of the cash in hand was invested, part of it in each class
C13_Witness ==
    /\ lastOp = "invest" /\ cash = 0
    /\ investments["savings"] > 0 /\ investments["gold"] > 0

\* C14: a withdrawal of more than principal + profit, or of amount <= 0,
\* is rejected: the store's withdraw is not dispatched and cash, principal
\* and profit are unchanged; the same on the gold path, where the amount is
\* grams x current gold rate.
C14_InvalidWithdrawRejected ==
    [][(/\ lastOp' \in {"withdraw", "withdrawRejected"}
        /\ (lastArg'.amount > getTotalValue(lastArg'.asset) \/ lastArg'.amount <= 0))
       => (/\ lastOp' = "withdrawRejected"
           /\ UNCHANGED <<cash, investments, investmentProfits>>)]_vars

\* on the gold path, more than the value held in gold was asked for and
\* rejected
C14_Witness ==
    /\ lastOp = "withdrawRejected" /\ lastArg.asset = "gold"
    /\ getTotalValue("gold") > 0
    /\ lastArg.amount > getTotalValue("gold")

\* C15: a valid withdrawal, 0 < amt <= principal + profit, credits cash
\* with exactly amt and takes exactly amt from principal + profit of the
\* asset, from principal and profit in proportion (to the rounding of one
\* unit), neither going negative; every other asset is unchanged.
C15_ValidWithdraw ==
    [][(/\ lastOp' \in {"withdraw", "withdrawRejected"}
        /\ 0 < lastArg'.amount /\ lastArg'.amount <= getTotalValue(lastArg'.asset))
       => LET a == lastArg'.asset
              amt == lastArg'.amount
              total == getTotalValue(a)
              skew == investmentProfits'[a] * total - investmentProfits[a] * (total - amt)
          IN /\ lastOp' = "withdraw"
             /\ cash' = cash + amt
             /\ investments'[a] + investmentProfits'[a] = total - amt
             /\ investments'[a] >= 0 /\ investmentProfits'[a] >= 0
             /\ skew < total /\ -skew < total
             /\ \A b \in AllAssets \ {a} :
                   /\ investments'[b] = investments[b]
                   /\ investmentProfits'[b] = investmentProfits[b]]_vars

\* part of a holding with profit was withdrawn: principal and profit are
\* both left
C15_Witness ==
    /\ lastOp = "withdraw"
    /\ investments[lastArg.asset] > 0 /\ investmentProfits[lastArg.asset] > 0

\* C16: a purchase of a stock, crypto or real-estate instrument whose
\* quantity x current price exceeds the cash in hand is rejected: the
\* store's buy is not dispatched and cash and quantities are unchanged.
C16_UnaffordableBuyRejected ==
    [][(/\ lastOp' \in {"buy", "buyRejected"}
        /\ prices[lastArg'.asset] * lastArg'.amount > cash)
       => (/\ lastOp' = "buyRejected"
           /\ UNCHANGED <<cash, quantities>>)]_vars

\* a purchase of a positive quantity that the cash does not cover was
\* asked for and rejected
C16_Witness ==
    /\ lastOp = "buyRejected" /\ lastArg.amount > 0
    /\ prices[lastArg.asset] * lastArg.amount > cash

\* C17: a sale of a stock, crypto or real-estate instrument is rejected,
\* with cash and quantities unchanged, whenever the quantity exceeds the
\* owned quantity recorded for the symbol, and accepted whenever
\* 0 < quantity <= owned quantity.
C17_SellByRecordedQuantity ==
    [][lastOp' \in {"sellQty", "sellQtyRejected"}
       => LET s == lastArg'.asset
              q == lastArg'.amount
          IN /\ q > getOwned(s) => (/\ lastOp' = "sellQtyRejected"
                                    /\ UNCHANGED <<cash, quantities>>)
             /\ (0 < q /\ q <= getOwned(s)) => lastOp' = "sellQty"]_vars

\* C18: a sell from the selector of amount <= 0 or of more than the
\* asset's total value is rejected: nothing is withdrawn, no payment is
\* scheduled, and cash, holdings and the outstanding event are unchanged.
C18_InvalidSellRejected ==
    [][(/\ lastOp' \in {"sell", "sellRejected"}
        /\ (lastArg'.amount > getTotalValue(lastArg'.asset) \/ lastArg'.amount <= 0))
       => (/\ lastOp' = "sellRejected"
           /\ UNCHANGED <<cash, investments, investmentProfits, quantities,
                          timers, currentEvent, showEventModal>>)]_vars

\* more than the value held was asked for in the selector and rejected
C18_Witness ==
    /\ lastOp = "sellRejected" /\ lastArg.amount > getTotalValue(lastArg.asset)
    /\ currentEvent # NoEvent /\ showInvestmentSelector

\* base * 0.9^n and base * 1.1^n in the units of the rates
RECURSIVE rateFloor(_, _)
rateFloor(base, n) == IF n = 0 THEN base * RateScale ELSE (rateFloor(base, n - 1) \div 10) * 9

RECURSIVE rateCeiling(_, _)
rateCeiling(base, n) == IF n = 0 THEN base * RateScale ELSE (rateCeiling(base, n - 1) \div 10) * 11

\* C19: a year-boundary update replaces every annual return rate r by r'
\* with 0.9 * r <= r' <= 1.1 * r and r' >= 0; after n updates each
\* displayed rate is never negative and lies within
\* [base * 0.9^n, base * 1.1^n]; nothing but the update of the year effect
\* changes a rate.
C19_RatesWithinBand ==
    /\ [](\A a \in Assets :
            /\ investmentOptions[a] >= 0
            /\ rateFloor(baseReturnRate[a], rateUpdates) <= investmentOptions[a]
            /\ investmentOptions[a] <= rateCeiling(baseReturnRate[a], rateUpdates))
    /\ [][/\ \A a \in Assets :
               /\ (investmentOptions[a] \div 10) * 9 <= investmentOptions'[a]
               /\ investmentOptions'[a] <= (investmentOptions[a] \div 10) * 11
               /\ investmentOptions'[a] >= 0
          /\ investmentOptions' # investmentOptions
                => (/\ lastOp' = "yearEffect"
                    /\ year(gameTime) > currentYear
                    /\ rateUpdates' = rateUpdates + 1)]_vars

\* after four updates one rate stands at its ceiling and the other at its
\* floor
C19_Witness ==
    /\ rateUpdates = 4
    /\ investmentOptions["savings"] = rateCeiling(baseReturnRate["savings"], 4)
    /\ investmentOptions["gold"] = rateFloor(baseReturnRate["gold"], 4)

\* C20: the profit of a fixed-rate class changes only when a tick crosses
\* year boundaries, and then by principal x rate / 100 for each boundary
\* crossed, at the rate shown to the player (taken in hundredths of a
\* percent).
C20_AccrualAtDisplayedRate ==
    [][\A a \in Assets :
          investmentProfits'[a] = investmentProfits[a]
              + (IF lastOp' = "tick"
                 THEN (year(gameTime') - year(gameTime))
                      * ((investments[a] * (investmentOptions[a] \div (RateScale \div 100)))
                            \div 10000)
                 ELSE 0)]_vars

\* C21: pausing and resuming leave the elapsed game time and the derived
\* year and month as they are: elapsed time changes by nothing but a tick
\* of a clock that is not paused, and a run of the pause effect that sets
\* paused to the value it has changes nothing of the game.
C21_PauseKeepsClock ==
    [][/\ gameTime' # gameTime => (lastOp' = "tick" /\ ~paused)
       /\ lastOp' = "pauseEffect" =>
             /\ gameTime' = gameTime
             /\ year(gameTime') = year(gameTime)
             /\ currentMonth(gameTime') = currentMonth(gameTime)
             /\ paused' = showEventModal
       /\ (lastOp' = "pauseEffect" /\ paused = showEventModal) =>
             UNCHANGED <<gameTime, paused, isGameOver, cash, investments,
                         investmentProfits, netWorth, aiNetWorth, currentEvent,
                         showEventModal, currentYear, timers>>]_vars

\* the clock was paused for an event in the middle of a year and has been
\* resumed by the pause effect
C21_Witness ==
    /\ lastOp = "pauseEffect" /\ ~paused
    /\ eventCount > 0 /\ currentMonth(gameTime) = 6

\* the records this game has written to the stored results
written == SelectSeq(results, LAMBDA r : r.date = Now)

\* C22: a recorded outcome is "win" exactly when the recorded player score
\* is strictly greater than the recorded competitor score, a tie being a
\* loss, the scores recorded are the net worths at game over, and the
\* verdict of the game-over modal is the outcome recorded.
C22_VerdictMatchesRecord ==
    /\ \A i \in 1..Len(results) :
          results[i].result = (IF results[i].playerScore > results[i].aiScore
                               THEN "win" ELSE "loss")
    /\ \A i \in 1..Len(written) :
          /\ showGameOverModal /\ isGameOver
          /\ written[i].playerScore = netWorth
          /\ written[i].aiScore = aiNetWorth
          /\ written[i].result = modalVerdict

\* a tie has been recorded, and shown, as a loss
C22_Witness ==
    /\ showGameOverModal
    /\ Len(written) = 1
    /\ written[1].playerScore = written[1].aiScore
    /\ written[1].result = "loss" /\ modalVerdict = "loss"

\* a win has been recorded and shown
C22_WitnessWin ==
    /\ showGameOverModal
    /\ Len(written) = 1
    /\ written[1].result = "win" /\ modalVerdict = "win"

\* C23: the game-over effect that saves the game appends at most one record
\* to the stored results and leaves the earlier records as they are and in
\* order; with no user signed in it writes nothing; whether or not the
\* storage fails the game-over modal is shown; no other step writes, and a
\* game writes no more than one record.
C23_OneRecordAppended ==
    [][/\ results' # results =>
             /\ lastOp' = "gameOverEffect" /\ isGameOver /\ ~showGameOverModal
             /\ user # NoUser
             /\ results' = Append(results, gameResult)
             /\ SubSeq(results', 1, Len(results)) = results
             /\ written = <<>>
       /\ (lastOp' = "gameOverEffect" /\ isGameOver /\ ~showGameOverModal) =>
             /\ showGameOverModal'
             /\ saves' = saves + 1
             /\ user = NoUser => results' = results
       /\ user' = user
       /\ saves' <= 1]_vars

\* a signed-in user with an earlier record stored has this game's record
\* after it
C23_Witness ==
    /\ user # NoUser /\ showGameOverModal
    /\ Len(results) = 2 /\ results[1] = OldRecord /\ results[2].date = Now

\* the storage failed: nothing was written and the modal is shown
C23_WitnessFailure ==
    /\ user # NoUser /\ showGameOverModal /\ saves = 1
    /\ results = <<OldRecord>>

\* nobody is signed in: nothing was written and the modal is shown
C23_WitnessNoUser ==
    /\ user = NoUser /\ showGameOverModal /\ saves = 1
    /\ results = <<OldRecord>>

C27_HoldingMatchesQuantity ==
    \A s \in Symbols : getTotalValue(s) = quantities[s] * prices[s]

\* C28: whenever the payment deferred by handleSellInvestment executes and
\* pays, cash at that moment covers the cost of the event it pays, so cash
\* after the payment is not negative.
C28_DeferredPaymentCovered ==
    [][(lastOp' = "timerPay" /\ paid' # paid)
          => (cash >= Head(timers).cost /\ cash' >= 0)]_vars

\* C29: debt comes from paying an expense and from nothing else: an invest
\* or a buy is accepted only with cash > 0 and leaves cash >= 0, and
\* whenever cash is negative an expense has been paid with cash before.
C29_DebtOnlyByPaying ==
    /\ [](cash < 0 => \E i \in 1..(MaxEvents + 1) : paid[i] > 0)
    /\ [][/\ lastOp' \in {"invest", "buy"} => (cash > 0 /\ cash' >= 0)
          /\ (cash >= 0 /\ cash' < 0) => lastOp' \in {"payCash", "timerPay"}
          /\ (cash <= 0 /\ lastOp' \in {"invest", "investRejected", "buy", "buyRejected"})
                => (lastOp' \in {"investRejected", "buyRejected"} /\ cash' = cash)]_vars

\* in debt after an expense was paid with cash, the player has just tried
\* to buy and was rejected
C29_Witness ==
    /\ cash < 0
    /\ \E i \in 1..MaxEvents : paid[i] > 0
    /\ lastOp = "buyRejected" /\ lastArg.amount > 0

\* elapsed times around every year boundary, up to two years past the end
CalendarTimes ==
    {(GameDuration \div TotalYears) * k + d :
        k \in 0..(TotalYears + 1), d \in {0, 1, 4999, 5000, 59999}}

\* C30: for every elapsed time the year is in 0..10 and the month in 0..11,
\* the year does not decrease as time grows, the year is 10 exactly from
\* 600000 ms on and the month is then 0; currentYear never exceeds the
\* year and never decreases.
C30_CalendarInRange ==
    /\ [](/\ \A t \in CalendarTimes \cup {gameTime} :
               /\ t >= 0
               /\ year(t) \in 0..TotalYears
               /\ currentMonth(t) \in 0..11
               /\ (year(t) = TotalYears) <=> (t >= GameDuration)
               /\ t >= GameDuration => currentMonth(t) = 0
               /\ t <= gameTime => year(t) <= year(gameTime)
               /\ t >= gameTime => year(t) >= year(gameTime)
          /\ currentYear <= year(gameTime))
    /\ [][/\ year(gameTime') >= year(gameTime)
          /\ currentYear' >= currentYear]_vars

\* the clock has run past the end of the game: the year is capped at 10,
\* the month is 0 and currentYear has caught up
C30_Witness ==
    /\ gameTime > GameDuration
    /\ year(gameTime) = TotalYears /\ currentMonth(gameTime) = 0
    /\ currentYear = TotalYears

\* the elapsed times at which a tick of FairLoop can start
TickTimes == {0, 150000, 300000, 450000}

\* C25: the frame loop can always run, paused or not; a tick while paused
\* leaves the elapsed time unchanged; a tick of a clock that is neither
\* paused nor over advances the elapsed time; and a clock that is not
\* paused and not over does advance, unless it is paused first.
C25_LoopRunsWhilePaused ==
    /\ [](ENABLED gameLoop(LongDeltas, EventCosts, SteadyGrowth))
    /\ [][/\ (lastOp' = "tick" /\ paused) => gameTime' = gameTime
          /\ (lastOp' = "tick" /\ ~paused /\ ~isGameOver) => gameTime' > gameTime]_vars
    /\ \A t \in TickTimes :
          (gameTime = t /\ ~paused /\ ~isGameOver) ~> (gameTime > t \/ paused)

\* a tick has run while the clock was paused for an outstanding event
C25_WitnessPaused ==
    /\ paused /\ lastOp = "tick" /\ currentEvent # NoEvent

\* the clock was paused for an event, has been resumed, and a tick has
\* advanced the elapsed time since
C25_Witness ==
    /\ ~paused /\ lastOp = "tick" /\ eventCount > 0
    /\ currentEvent = NoEvent /\ ~isGameOver
    /\ \E i \in 1..MaxEvents : paid[i] > 0
    /\ gameTime = 300000

====
